---- MODULE Spec2Model ----
(***************************************************************************)
(* A model of 0-minimal/verilog/verilator/sim.cpp: the Verilator test      *)
(* harness of the MyCPU core (Memory, VCDTracer, Simulator, main).         *)
(*                                                                         *)
(* A 32-bit word is the tuple of its four byte lanes <<b0, b1, b2, b3>>,   *)
(* lane i holding bits 8i .. 8i+7 (0xBABECAFE is <<254, 202, 190, 186>>).  *)
(* The simulated core (VTop) is a black box: each eval() may put any       *)
(* value of CoreOutputs on its output signals and may raise gotFinish.     *)
(* Command-line tokens and file names are sequences of one-character       *)
(* strings, so that number parsing works on characters as the code does.   *)
(***************************************************************************)
EXTENDS Integers, Sequences, FiniteSets, TLC

VARIABLES args, sim, twin, hist, unit

vars == <<args, sim, twin, hist, unit>>

(***************************************************************************)
(* Bounds of the model.                                                    *)
(***************************************************************************)
MemWords == 2
MaxTime == 3
MaxImageBytes == 9

(***************************************************************************)
(* Program constants.                                                      *)
(***************************************************************************)
RESET_CYCLES == 2
DefaultLoadAddress == 4096
HaltSentinel == <<254, 202, 190, 186>>

(***************************************************************************)
(* Words and the bitwise operators of uint32_t, lane by lane.              *)
(***************************************************************************)
ZeroWord == <<0, 0, 0, 0>>

RECURSIVE ByteAnd(_, _)
ByteAnd(a, b) ==
    IF a = 0 \/ b = 0 THEN 0
    ELSE (IF a % 2 = 1 /\ b % 2 = 1 THEN 1 ELSE 0)
         + 2 * ByteAnd(a \div 2, b \div 2)

RECURSIVE ByteOr(_, _)
ByteOr(a, b) ==
    IF a = 0 THEN b
    ELSE IF b = 0 THEN a
    ELSE (IF a % 2 = 1 \/ b % 2 = 1 THEN 1 ELSE 0)
         + 2 * ByteOr(a \div 2, b \div 2)

WordAnd(x, y) == [i \in 1..4 |-> ByteAnd(x[i], y[i])]
WordOr(x, y) == [i \in 1..4 |-> ByteOr(x[i], y[i])]
WordNot(x) == [i \in 1..4 |-> 255 - x[i]]

\* mutant of LaneMask: 0xFF << i, the lane index not scaled to bits
LaneMask_ShiftBits(i) ==
    [k \in 1..4 |-> IF k = 1 THEN (255 * 2 ^ i) % 256
                    ELSE IF k = 2 THEN (255 * 2 ^ i) \div 256
                    ELSE 0]

\* 0xFF << (i * 8), for lane i in 0..3
LaneMask(i) == [k \in 1..4 |-> IF k = i + 1 THEN 255 ELSE 0]

(***************************************************************************)
(* class Memory                                                            *)
(***************************************************************************)
NewMemory(size) == [i \in 1..size |-> ZeroWord]

\* mutant of read: the word index wraps around the capacity
read_Wrap(mem, address) ==
    LET index == address \div 4 IN
    IF Len(mem) = 0 THEN ZeroWord ELSE mem[(index % Len(mem)) + 1]

read(mem, address) ==
    LET index == address \div 4 IN
    IF index >= Len(mem) THEN ZeroWord ELSE mem[index + 1]

RECURSIVE WriteMask(_, _)
WriteMask(write_strobe, i) ==
    IF i = 4 THEN ZeroWord
    ELSE LET rest == WriteMask(write_strobe, i + 1) IN
         IF write_strobe[i + 1] THEN WordOr(LaneMask(i), rest) ELSE rest

InvalidWrite(mem, address) == address \div 4 >= Len(mem)

write(mem, address, value, write_strobe) ==
    LET index == address \div 4 IN
    IF index >= Len(mem) THEN mem
    ELSE LET write_mask == WriteMask(write_strobe, 0) IN
         [mem EXCEPT ![index + 1] =
             WordOr(WordAnd(@, WordNot(write_mask)), WordAnd(value, write_mask))]

\* The file system seen by the process: a file to read is its bytes, or
\* NoFile when it cannot be opened.
NoFile == <<-1>>

RECURSIVE LoadWords(_, _, _, _)
LoadWords(mem, file, load_address, i) ==
    IF i >= Len(file) \div 4 THEN mem
    ELSE LoadWords(
            [mem EXCEPT ![i + load_address \div 4 + 1] =
                <<file[4 * i + 1], file[4 * i + 2], file[4 * i + 3], file[4 * i + 4]>>],
            file, load_address, i + 1)

\* mutant of load_binary: the image is fitted against the capacity in words
load_binary_WordCapacity(mem, file, load_address) ==
    IF file = NoFile
    THEN [threw |-> "load_open", memory |-> mem]
    ELSE IF load_address + Len(file) > Len(mem)
    THEN [threw |-> "load_too_large", memory |-> mem]
    ELSE [threw |-> "none", memory |-> LoadWords(mem, file, load_address, 0)]

load_binary(mem, file, load_address) ==
    IF file = NoFile
    THEN [threw |-> "load_open", memory |-> mem]
    ELSE IF load_address + Len(file) > Len(mem) * 4
    THEN [threw |-> "load_too_large", memory |-> mem]
    ELSE [threw |-> "none", memory |-> LoadWords(mem, file, load_address, 0)]

(***************************************************************************)
(* Strings: command-line tokens and file names.                            *)
(***************************************************************************)
Tok_prog == <<"s", "i", "m">>
Tok_halt == <<"-", "h", "a", "l", "t">>
Tok_memory == <<"-", "m", "e", "m", "o", "r", "y">>
Tok_time == <<"-", "t", "i", "m", "e">>
Tok_vcd == <<"-", "v", "c", "d">>
Tok_signature == <<"-", "s", "i", "g", "n", "a", "t", "u", "r", "e">>
Tok_instruction == <<"-", "i", "n", "s", "t", "r", "u", "c", "t", "i", "o", "n">>

F_image == <<"i", "m", "g">>
F_missing == <<"g", "o", "n", "e">>
F_vcd == <<"v", "c", "d">>
F_sig == <<"s", "i", "g">>
F_locked == <<"r", "o">>

\* The instruction image on disk: one whole word (the halt sentinel) and
\* two trailing bytes.
ImageBytes == <<254, 202, 190, 186, 19, 1>>

\* std::ifstream file(filename, std::ios::binary)
OpenForRead(filename) == IF filename = F_image THEN ImageBytes ELSE NoFile

\* tfp->open(filename) / std::ofstream signature_file(filename)
OpenForWrite(filename) == filename # F_locked

DecDigits == <<"0", "1", "2", "3", "4", "5", "6", "7", "8", "9">>

RECURSIVE DecStr(_)
DecStr(n) ==
    IF n < 10 THEN <<DecDigits[n + 1]>>
    ELSE Append(DecStr(n \div 10), DecDigits[(n % 10) + 1])

(***************************************************************************)
(* std::stoul / std::stoull on a token without white space or sign: the    *)
(* longest prefix of digits of the base is converted, std::invalid_argument*)
(* is thrown when that prefix is empty.  Tokens of the model are short, so *)
(* no conversion overflows.                                                *)
(***************************************************************************)
DigitValue(c) ==
    CASE c = "0" -> 0 [] c = "1" -> 1 [] c = "2" -> 2 [] c = "3" -> 3
      [] c = "4" -> 4 [] c = "5" -> 5 [] c = "6" -> 6 [] c = "7" -> 7
      [] c = "8" -> 8 [] c = "9" -> 9
      [] c \in {"a", "A"} -> 10 [] c \in {"b", "B"} -> 11
      [] c \in {"c", "C"} -> 12 [] c \in {"d", "D"} -> 13
      [] c \in {"e", "E"} -> 14 [] c \in {"f", "F"} -> 15
      [] OTHER -> 99

RECURSIVE ParseDigits(_, _, _, _)
ParseDigits(str, base, i, acc) ==
    IF i > Len(str) \/ DigitValue(str[i]) >= base
    THEN [next |-> i, value |-> acc]
    ELSE ParseDigits(str, base, i + 1, acc * base + DigitValue(str[i]))

stoul(str, base) ==
    LET start == IF /\ base = 16
                    /\ Len(str) >= 3
                    /\ str[1] = "0"
                    /\ str[2] \in {"x", "X"}
                    /\ DigitValue(str[3]) < 16
                 THEN 3 ELSE 1
        r == ParseDigits(str, base, start, 0)
    IN  IF r.next = start
        THEN [ok |-> FALSE, value |-> 0]
        ELSE [ok |-> TRUE, value |-> r.value]

parse_number(str) ==
    IF Len(str) > 2 /\ SubSeq(str, 1, 2) \in {<<"0", "x">>, <<"0", "X">>}
    THEN stoul(SubSeq(str, 3, Len(str)), 16)
    ELSE stoul(str, 10)

(***************************************************************************)
(* The simulated core (VTop) and the Verilated run-time.                   *)
(***************************************************************************)
NoStrobe == <<FALSE, FALSE, FALSE, FALSE>>

NewTop ==
    [reset |-> 0, clock |-> 0, io_instruction_valid |-> 0,
     io_instruction |-> ZeroWord,
     io_memory_bundle_read_data |-> ZeroWord,
     io_instruction_address |-> 0,
     io_memory_bundle_address |-> 0,
     io_memory_bundle_write_enable |-> FALSE,
     io_memory_bundle_write_data |-> ZeroWord,
     io_memory_bundle_write_strobe |-> NoStrobe,
     final_calls |-> 0]

\* What one eval() can put on the core's outputs: a read of the data word
\* at InRangeAddress while fetching either instruction word, a read and a
\* fetch beyond the capacity, a write of the word at InRangeAddress under
\* three strobe patterns, a write of word 0, or a write beyond the capacity.
OtherWord == <<68, 51, 34, 17>>
InRangeAddress == 4
OutOfRangeAddress == 4 * MemWords
AllStrobes == <<TRUE, TRUE, TRUE, TRUE>>
CoreOutputs ==
    [ia : {0, InRangeAddress}, da : {InRangeAddress}, we : {FALSE},
     wd : {ZeroWord}, ws : {NoStrobe}]
    \cup
    [ia : {OutOfRangeAddress}, da : {OutOfRangeAddress}, we : {FALSE},
     wd : {ZeroWord}, ws : {NoStrobe}]
    \cup
    [ia : {InRangeAddress}, da : {InRangeAddress}, we : {TRUE},
     wd : {HaltSentinel, OtherWord},
     ws : {AllStrobes, <<FALSE, TRUE, TRUE, TRUE>>, <<TRUE, FALSE, FALSE, FALSE>>}]
    \cup
    [ia : {0}, da : {0}, we : {TRUE}, wd : {OtherWord, HaltSentinel}, ws : {AllStrobes}]
    \cup
    [ia : {InRangeAddress}, da : {OutOfRangeAddress}, we : {TRUE},
     wd : {OtherWord}, ws : {AllStrobes}]

\* One eval(): the outputs it leaves, and whether the core executed $finish
\* (Verilated::gotFinish()) during it.
FinishOutputs ==
    {o \in CoreOutputs : o.ia = InRangeAddress /\ o.ws \in {NoStrobe, AllStrobes}
                           /\ o.wd # HaltSentinel}
CoreEvals ==
    {<<o, FALSE>> : o \in CoreOutputs} \cup {<<o, TRUE>> : o \in FinishOutputs}

eval(top, out) ==
    [top EXCEPT !.io_instruction_address = out.ia,
                !.io_memory_bundle_address = out.da,
                !.io_memory_bundle_write_enable = out.we,
                !.io_memory_bundle_write_data = out.wd,
                !.io_memory_bundle_write_strobe = out.ws]

(***************************************************************************)
(* class VCDTracer                                                         *)
(***************************************************************************)
NewVCDTracer == [tfp |-> FALSE, is_open |-> FALSE, dumps |-> <<>>, closes |-> 0]

enable(tracer, filename) ==
    [tracer EXCEPT !.tfp = TRUE, !.is_open = OpenForWrite(filename)]

\* mutant of dump: an enabled recorder also advances the time it is given
dump_Ticks(s, time) ==
    IF s.vcd_tracer.tfp
    THEN [s EXCEPT !.vcd_tracer.dumps = Append(@, time), !.main_time = time + 1]
    ELSE s

dump(s, time) ==
    IF s.vcd_tracer.tfp
    THEN [s EXCEPT !.vcd_tracer.dumps = Append(@, time)]
    ELSE s

DestroyVCDTracer(tracer) ==
    IF tracer.tfp THEN [tracer EXCEPT !.closes = @ + 1, !.is_open = FALSE]
    ELSE tracer

(***************************************************************************)
(* class Simulator.  pc is the position of the process: "main" before the  *)
(* Simulator is constructed, "run" at the start of run(), "loop" at the    *)
(* loop head, "post" after the loop, "exit" once main has returned.        *)
(***************************************************************************)
NewSimulator ==
    [pc |-> "main",
     top |-> NewTop,
     vcd_tracer |-> NewVCDTracer,
     memory |-> <<>>,
     main_time |-> 0,
     max_sim_time |-> 10000,
     halt_address |-> 0,
     memory_words |-> 1024 * 1024,
     instruction_filename |-> <<>>,
     dump_signature |-> FALSE,
     signature_begin |-> 0,
     signature_end |-> 0,
     signature_filename |-> <<>>,
     data_memory_read_word |-> ZeroWord,
     inst_memory_read_word |-> ZeroWord,
     memory_write_strobe |-> NoStrobe,
     bus_ops |-> <<>>,
     gotFinish |-> FALSE,
     threw |-> "none",
     cerr |-> {},
     cout |-> {},
     notices |-> <<>>,
     signature_file |-> [is_open |-> FALSE, lines |-> <<>>],
     signature_calls |-> 0,
     stop |-> "none",
     exit_code |-> -1]

Throw(s, what) == [s EXCEPT !.threw = what]

RECURSIVE parse_args(_, _, _)
parse_args(s, a, it) ==
    IF it > Len(a) \/ s.threw # "none" THEN s
    ELSE IF a[it] = Tok_halt /\ it + 1 <= Len(a) THEN
        LET n == parse_number(a[it + 1]) IN
        IF n.ok THEN parse_args([s EXCEPT !.halt_address = n.value], a, it + 2)
        ELSE Throw(s, "invalid_argument")
    ELSE IF a[it] = Tok_memory /\ it + 1 <= Len(a) THEN
        LET n == stoul(a[it + 1], 10) IN
        IF n.ok THEN parse_args([s EXCEPT !.memory_words = n.value], a, it + 2)
        ELSE Throw(s, "invalid_argument")
    ELSE IF a[it] = Tok_time /\ it + 1 <= Len(a) THEN
        LET n == stoul(a[it + 1], 10) IN
        IF n.ok THEN parse_args([s EXCEPT !.max_sim_time = n.value], a, it + 2)
        ELSE Throw(s, "invalid_argument")
    ELSE IF a[it] = Tok_vcd /\ it + 1 <= Len(a) THEN
        LET tr == enable(s.vcd_tracer, a[it + 1]) IN
        IF tr.is_open THEN parse_args([s EXCEPT !.vcd_tracer = tr], a, it + 2)
        ELSE Throw([s EXCEPT !.vcd_tracer = tr], "vcd_open")
    ELSE IF a[it] = Tok_signature /\ Len(a) - it + 1 > 3 THEN
        LET b == parse_number(a[it + 1])
            e == parse_number(a[it + 2])
            s1 == [s EXCEPT !.dump_signature = TRUE]
        IN  IF ~b.ok THEN Throw(s1, "invalid_argument")
            ELSE IF ~e.ok
            THEN Throw([s1 EXCEPT !.signature_begin = b.value], "invalid_argument")
            ELSE parse_args([s1 EXCEPT !.signature_begin = b.value,
                                       !.signature_end = e.value,
                                       !.signature_filename = a[it + 3]],
                            a, it + 4)
    ELSE IF a[it] = Tok_instruction /\ it + 1 <= Len(a) THEN
        parse_args([s EXCEPT !.instruction_filename = a[it + 1]], a, it + 2)
    ELSE parse_args(s, a, it + 1)

\* mutant of CatchAndExit: the failure is reported but main returns 0
CatchAndExit_ReturnsZero(s) ==
    [s EXCEPT !.vcd_tracer = DestroyVCDTracer(@),
              !.cerr = @ \cup {s.threw},
              !.exit_code = 0,
              !.pc = "exit"]

\* main's catch clause, after the members of the half-built Simulator have
\* been destroyed: the diagnostic, and return 1.
CatchAndExit(s) ==
    [s EXCEPT !.vcd_tracer = DestroyVCDTracer(@),
              !.cerr = @ \cup {s.threw},
              !.exit_code = 1,
              !.pc = "exit"]

SimulatorCtor(s, a) ==
    LET p == parse_args(s, a, 1) IN
    IF p.threw # "none" THEN CatchAndExit(p)
    ELSE LET m == [p EXCEPT !.memory = NewMemory(p.memory_words)] IN
         IF m.instruction_filename = <<>> THEN [m EXCEPT !.pc = "run"]
         ELSE LET l == load_binary(m.memory, OpenForRead(m.instruction_filename),
                                   DefaultLoadAddress)
              IN  IF l.threw # "none" THEN CatchAndExit(Throw(m, l.threw))
                  ELSE [m EXCEPT !.memory = l.memory, !.pc = "run"]

\* F applied to the value of x: the statements of a function body run one
\* after the other, each on the state the one before it left.
Then(x, F(_)) == CHOOSE r \in {F(v) : v \in {x}} : TRUE

\* run(), up to the loop
run_init(s, out, fin) ==
    LET Reset(x) ==
            [x EXCEPT !.top.reset = 1, !.top.clock = 0, !.top.io_instruction_valid = 1]
        Evaluate(x) == [x EXCEPT !.top = eval(@, out), !.gotFinish = @ \/ fin]
        DumpNow(x) == dump(x, x.main_time)
        Locals(x) ==
            [x EXCEPT !.data_memory_read_word = ZeroWord,
                      !.inst_memory_read_word = ZeroWord,
                      !.memory_write_strobe = NoStrobe,
                      !.pc = "loop"]
    IN  Then(Then(Then(Then(s, Reset), Evaluate), DumpNow), Locals)

\* mutant of LoopCondition: off by one
LoopCondition_Inclusive(s) == s.main_time <= s.max_sim_time /\ ~s.gotFinish

LoopCondition(s) == s.main_time < s.max_sim_time /\ ~s.gotFinish

\* mutant of AdvanceClock: reset is released one step early
AdvanceClock_EarlyRelease(s) ==
    LET t == s.main_time + 1 IN
    [s EXCEPT !.main_time = t,
              !.top.clock = 1 - @,
              !.top.reset = IF t >= RESET_CYCLES THEN 0 ELSE @]

\* mutant of AdvanceClock: the clock is driven from the parity of the new time
\* plus one
AdvanceClock_InvertedClock(s) ==
    LET t == s.main_time + 1 IN
    [s EXCEPT !.main_time = t,
              !.top.clock = (t + 1) % 2,
              !.top.reset = IF t > RESET_CYCLES THEN 0 ELSE @]

AdvanceClock(s) ==
    LET t == s.main_time + 1 IN
    [s EXCEPT !.main_time = t,
              !.top.clock = 1 - @,
              !.top.reset = IF t > RESET_CYCLES THEN 0 ELSE @]

\* mutant of PresentInputs: the data response is not refreshed
PresentInputs_StaleData(s) ==
    [s EXCEPT !.top.io_instruction = s.inst_memory_read_word]

PresentInputs(s) ==
    [s EXCEPT !.top.io_memory_bundle_read_data = s.data_memory_read_word,
              !.top.io_instruction = s.inst_memory_read_word]

\* mutant of ServiceReads: the data read is issued only when the core does
\* not write
ServiceReads_OnlyWhenIdle(s) ==
    IF s.top.io_memory_bundle_write_enable
    THEN [s EXCEPT !.inst_memory_read_word = read(s.memory, s.top.io_instruction_address),
                   !.bus_ops = <<"inst_read">>]
    ELSE [s EXCEPT !.data_memory_read_word = read(s.memory, s.top.io_memory_bundle_address),
                   !.inst_memory_read_word = read(s.memory, s.top.io_instruction_address),
                   !.bus_ops = <<"data_read", "inst_read">>]

\* mutant of ServiceReads: the reads see the memory the step's write leaves
ServiceReads_AfterWrite(s) ==
    LET m == IF s.top.io_memory_bundle_write_enable
             THEN write(s.memory, s.top.io_memory_bundle_address,
                        s.top.io_memory_bundle_write_data,
                        s.top.io_memory_bundle_write_strobe)
             ELSE s.memory
    IN  [s EXCEPT !.data_memory_read_word = read(m, s.top.io_memory_bundle_address),
                  !.inst_memory_read_word = read(m, s.top.io_instruction_address),
                  !.bus_ops = <<"data_read", "inst_read">>]

\* bus_ops lists the Memory calls the iteration has made for the bus so far
ServiceReads(s) ==
    [s EXCEPT !.data_memory_read_word = read(s.memory, s.top.io_memory_bundle_address),
              !.inst_memory_read_word = read(s.memory, s.top.io_instruction_address),
              !.bus_ops = <<"data_read", "inst_read">>]

\* mutant of ServiceWrite: an out-of-range write ends the process
ServiceWrite_Fatal(s) ==
    IF s.top.io_memory_bundle_write_enable
    THEN IF InvalidWrite(s.memory, s.top.io_memory_bundle_address)
         THEN [s EXCEPT !.threw = "invalid_write", !.cerr = @ \cup {"invalid_write"},
                        !.exit_code = 1, !.pc = "exit"]
         ELSE [s EXCEPT !.memory_write_strobe = s.top.io_memory_bundle_write_strobe,
                        !.memory = write(@, s.top.io_memory_bundle_address,
                                         s.top.io_memory_bundle_write_data,
                                         s.top.io_memory_bundle_write_strobe),
                        !.bus_ops = Append(@, "data_write")]
    ELSE s

ServiceWrite(s) ==
    IF s.top.io_memory_bundle_write_enable
    THEN [s EXCEPT !.memory_write_strobe = s.top.io_memory_bundle_write_strobe,
                   !.memory = write(@, s.top.io_memory_bundle_address,
                                    s.top.io_memory_bundle_write_data,
                                    s.top.io_memory_bundle_write_strobe),
                   !.cerr = IF InvalidWrite(s.memory, s.top.io_memory_bundle_address)
                            THEN @ \cup {"invalid_write"} ELSE @,
                   !.bus_ops = Append(@, "data_write")]
    ELSE s

\* mutant of HaltConditionMet: address 0 is watched like any other
HaltConditionMet_ZeroWatched(s) ==
    read(s.memory, s.halt_address) = HaltSentinel

\* mutant of HaltConditionMet: the pending read word is tested, not memory
HaltConditionMet_PendingWord(s) ==
    s.halt_address # 0 /\ s.data_memory_read_word = HaltSentinel

HaltConditionMet(s) ==
    s.halt_address # 0 /\ read(s.memory, s.halt_address) = HaltSentinel

ProgressNotice(s) ==
    IF /\ s.main_time > 0
       /\ s.max_sim_time > 10
       /\ s.main_time % (s.max_sim_time \div 10) = 0
    THEN [s EXCEPT !.notices = Append(@, (s.main_time * 100) \div s.max_sim_time)]
    ELSE s

\* one iteration of the loop of run(), statement by statement
run_iteration(s, out, fin) ==
    LET Evaluate(x) == [x EXCEPT !.top = eval(@, out), !.gotFinish = @ \/ fin]
        DumpNow(x) == dump(x, x.main_time)
        CheckHaltAndProgress(x) ==
            IF HaltConditionMet(x)
            THEN [x EXCEPT !.cout = @ \cup {"halt"}, !.stop = "halt", !.pc = "post"]
            ELSE ProgressNotice(x)
    IN  Then(Then(Then(Then(Then(Then(Then(s,
            AdvanceClock), PresentInputs), Evaluate), ServiceReads), ServiceWrite),
            DumpNow), CheckHaltAndProgress)

\* the loop condition is false
run_exit(s) ==
    [s EXCEPT !.stop = IF s.main_time >= s.max_sim_time THEN "budget" ELSE "finish",
              !.pc = "post"]

HexDigits == <<"0", "1", "2", "3", "4", "5", "6", "7", "8", "9",
               "a", "b", "c", "d", "e", "f">>

\* snprintf(data, 9, "%08x", word)
Hex8(w) ==
    <<HexDigits[(w[4] \div 16) + 1], HexDigits[(w[4] % 16) + 1],
      HexDigits[(w[3] \div 16) + 1], HexDigits[(w[3] % 16) + 1],
      HexDigits[(w[2] \div 16) + 1], HexDigits[(w[2] % 16) + 1],
      HexDigits[(w[1] \div 16) + 1], HexDigits[(w[1] % 16) + 1]>>

\* mutant of SignatureLines: the end address is included
RECURSIVE SignatureLines_Inclusive(_, _, _)
SignatureLines_Inclusive(mem, addr, end) ==
    IF addr <= end
    THEN <<Hex8(read(mem, addr))>> \o SignatureLines_Inclusive(mem, addr + 4, end)
    ELSE <<>>

RECURSIVE SignatureLines(_, _, _)
SignatureLines(mem, addr, end) ==
    IF addr < end
    THEN <<Hex8(read(mem, addr))>> \o SignatureLines(mem, addr + 4, end)
    ELSE <<>>

\* mutant of generate_signature: a sink that cannot be opened is not reported
generate_signature_Silent(s) ==
    IF ~OpenForWrite(s.signature_filename)
    THEN [s EXCEPT !.signature_calls = @ + 1]
    ELSE [s EXCEPT !.signature_calls = @ + 1,
                   !.signature_file =
             [is_open |-> TRUE,
              lines |-> SignatureLines(s.memory, s.signature_begin, s.signature_end)]]

generate_signature(s) ==
    IF ~OpenForWrite(s.signature_filename)
    THEN [s EXCEPT !.signature_calls = @ + 1, !.cerr = @ \cup {"signature_open"}]
    ELSE [s EXCEPT !.signature_calls = @ + 1,
                   !.signature_file =
             [is_open |-> TRUE,
              lines |-> SignatureLines(s.memory, s.signature_begin, s.signature_end)]]

\* mutant of run_finish: leaving the loop on the halt sentinel skips the
\* signature
run_finish_NoSignatureAfterHalt(s) ==
    LET g == IF s.dump_signature /\ s.stop # "halt" THEN generate_signature(s) ELSE s IN
    [g EXCEPT !.top.final_calls = @ + 1,
              !.vcd_tracer = DestroyVCDTracer(@),
              !.exit_code = 0,
              !.pc = "exit"]

\* the end of run(), ~Simulator and main's return 0
run_finish(s) ==
    LET g == IF s.dump_signature THEN generate_signature(s) ELSE s IN
    [g EXCEPT !.top.final_calls = @ + 1,
              !.vcd_tracer = DestroyVCDTracer(@),
              !.exit_code = 0,
              !.pc = "exit"]

\* The program as a function of its state and of what the core does next.
NextState(s, a, out, fin) ==
    CASE s.pc = "main" -> SimulatorCtor(s, a)
      [] s.pc = "run" -> run_init(s, out, fin)
      [] s.pc = "loop" ->
            IF LoopCondition(s) THEN run_iteration(s, out, fin) ELSE run_exit(s)
      [] s.pc = "post" -> run_finish(s)
      [] OTHER -> s

(***************************************************************************)
(* Command lines.                                                          *)
(***************************************************************************)
Hex0x6 == <<"0", "x", "6">>
Hex0x1000 == <<"0", "x", "1", "0", "0", "0">>

TimeArgs == {<<Tok_time, DecStr(m)>> : m \in 0..MaxTime}
HaltArgs == {<<>>, <<Tok_halt, Hex0x6>>, <<Tok_halt, DecStr(4 * MemWords)>>}
ExtraArgs ==
    {<<>>,
     <<Tok_vcd, F_vcd>>,
     <<Tok_vcd, F_locked>>,
     <<Tok_signature, DecStr(0), DecStr(4 * MemWords + 4), F_sig>>,
     <<Tok_signature, DecStr(4), DecStr(8), F_locked>>,
     <<Tok_signature, <<"z">>, DecStr(8), F_sig>>,
     <<Tok_instruction, F_missing>>,
     <<Tok_instruction, F_image>>}

SmallArgLists ==
    {<<Tok_prog, Tok_memory, DecStr(MemWords)>> \o t \o h \o e :
        t \in TimeArgs, h \in HaltArgs, e \in ExtraArgs}

LargeArgLists ==
    {<<Tok_prog, Tok_memory, DecStr(DefaultLoadAddress \div 4 + 2),
       Tok_time, DecStr(1), Tok_instruction, F_image>> \o h :
        h \in {<<>>, <<Tok_halt, Hex0x1000>>}}

ArgLists == SmallArgLists \cup LargeArgLists

HasVcd(a) == \E i \in 1..Len(a) : a[i] = Tok_vcd

RECURSIVE WithoutVcd(_)
WithoutVcd(a) ==
    IF a = <<>> THEN <<>>
    ELSE IF Head(a) = Tok_vcd /\ Len(a) >= 2 THEN WithoutVcd(SubSeq(a, 3, Len(a)))
    ELSE <<Head(a)>> \o WithoutVcd(Tail(a))

\* the same command line with waveform recording switched the other way
TwinArgs(a) == IF HasVcd(a) THEN WithoutVcd(a) ELSE a \o <<Tok_vcd, F_vcd>>

(***************************************************************************)
(* The process.  twin is a second process, started with TwinArgs(args) and *)
(* fed the same core outputs; hist records, step by step, the words that   *)
(* memory held at the addresses the core asserted.                         *)
(***************************************************************************)
NoHist ==
    [last |-> [inst |-> ZeroWord, data |-> ZeroWord],
     before |-> [inst |-> ZeroWord, data |-> ZeroWord],
     sentinel_step |-> 0,
     invalid_write_step |-> 0]

NoUnit == [op |-> "none"]

Init ==
    /\ args \in ArgLists
    /\ sim = NewSimulator
    /\ twin = NewSimulator
    /\ hist = NoHist
    /\ unit = NoUnit

Construct ==
    /\ sim.pc = "main"
    /\ sim' = SimulatorCtor(sim, args)
    /\ twin' = SimulatorCtor(twin, TwinArgs(args))
    /\ UNCHANGED <<args, hist, unit>>

RunInit ==
    /\ sim.pc = "run"
    /\ \E ev \in CoreEvals :
          /\ sim' = run_init(sim, ev[1], ev[2])
          /\ twin' = NextState(twin, TwinArgs(args), ev[1], ev[2])
    /\ UNCHANGED <<args, hist, unit>>

Step ==
    /\ sim.pc = "loop"
    /\ LoopCondition(sim)
    /\ \E ev \in CoreEvals :
          LET out == ev[1]
              fin == ev[2]
          IN
          /\ sim' = run_iteration(sim, out, fin)
          /\ twin' = NextState(twin, TwinArgs(args), out, fin)
          /\ hist' =
               [last |-> [inst |-> read(sim.memory, out.ia),
                          data |-> read(sim.memory, out.da)],
                before |-> hist.last,
                sentinel_step |->
                    IF /\ out.we
                       /\ sim.halt_address # 0
                       /\ read(sim'.memory, sim.halt_address) = HaltSentinel
                    THEN sim.main_time + 1 ELSE hist.sentinel_step,
                invalid_write_step |->
                    IF out.we /\ out.da \div 4 >= sim.memory_words
                    THEN sim.main_time + 1 ELSE hist.invalid_write_step]
    /\ UNCHANGED <<args, unit>>

LoopExit ==
    /\ sim.pc = "loop"
    /\ ~LoopCondition(sim)
    /\ sim' = run_exit(sim)
    /\ twin' = NextState(twin, TwinArgs(args), CHOOSE o \in CoreOutputs : TRUE, FALSE)
    /\ UNCHANGED <<args, hist, unit>>

Finish ==
    /\ sim.pc = "post"
    /\ sim' = run_finish(sim)
    /\ twin' = NextState(twin, TwinArgs(args), CHOOSE o \in CoreOutputs : TRUE, FALSE)
    /\ UNCHANGED <<args, hist, unit>>

Next == Construct \/ RunInit \/ Step \/ LoopExit \/ Finish

Spec == Init /\ [][Next]_vars

\* The runs that configure only the memory size and the time budget.  The
\* program never waits: some step is taken whenever one is possible.
PlainArgLists == {<<Tok_prog, Tok_memory, DecStr(MemWords)>> \o t : t \in TimeArgs}
FairInit == Init /\ args \in PlainArgLists
FairSpec == FairInit /\ [][Next]_vars /\ WF_vars(Next)

\* Runs long enough to report progress, on a memory of one word: budgets on
\* both sides of the threshold of 10 steps, one of them a multiple of 10.
ProgressTimes == {10, 11, 20}
ProgressArgLists ==
    {<<Tok_prog, Tok_memory, DecStr(1), Tok_time, DecStr(m)>> : m \in ProgressTimes}
ProgressInit ==
    /\ args \in ProgressArgLists
    /\ sim = NewSimulator
    /\ twin = NewSimulator
    /\ hist = NoHist
    /\ unit = NoUnit
ProgressSpec == ProgressInit /\ [][Next]_vars

\* Command lines with a configuration error after a well-formed prefix: a
\* flag without its value(s), a number with trailing or missing digits, a
\* number that does not start with a digit; and one without error.
ConfigTails ==
    {<<>>,
     <<Tok_halt>>,
     <<Tok_time>>,
     <<Tok_signature, DecStr(0), DecStr(8)>>,
     <<Tok_halt, <<"0", "x">>>>,
     <<Tok_halt, <<"6", "a", "b", "c">>>>,
     <<Tok_halt, <<"0", "x", "g">>>>,
     <<Tok_signature, DecStr(0), <<"8", "z">>, F_sig>>,
     <<Tok_time, <<"z">>>>}
ConfigArgLists ==
    {<<Tok_prog, Tok_memory, DecStr(MemWords), Tok_time, DecStr(2)>> \o c : c \in ConfigTails}
ConfigInit ==
    /\ args \in ConfigArgLists
    /\ sim = NewSimulator
    /\ twin = NewSimulator
    /\ hist = NoHist
    /\ unit = NoUnit
ConfigSpec == ConfigInit /\ [][Next]_vars

(***************************************************************************)
(* Properties of the run loop.                                             *)
(***************************************************************************)
Stepped == sim.pc \in {"loop", "post", "exit"} /\ sim.main_time >= 1
LoopLeft == sim.pc \in {"post", "exit"} /\ sim.stop # "none"

\* C1: the instruction and data words presented to the core at step t >= 2
\* are the memory words read at the addresses the core asserted in step
\* t-1; at step 1 both are 0.
C1_OneStepLatency ==
    Stepped =>
        IF sim.main_time = 1
        THEN /\ sim.top.io_instruction = ZeroWord
             /\ sim.top.io_memory_bundle_read_data = ZeroWord
        ELSE /\ sim.top.io_instruction = hist.before.inst
             /\ sim.top.io_memory_bundle_read_data = hist.before.data

\* a step whose presented data word is the previous request's, and differs
\* from the word at the address asserted in this step and from the
\* presented instruction word
C1_Witness ==
    /\ Stepped
    /\ sim.main_time >= 2
    /\ sim.top.io_memory_bundle_read_data = hist.before.data
    /\ hist.before.data # ZeroWord
    /\ hist.before.data # hist.last.data
    /\ hist.before.data # hist.before.inst

\* C2: when the write of step K makes the watched word equal to the halt
\* sentinel, the loop is left in that step: simulated time stays K.
C2_HaltDetection ==
    hist.sentinel_step > 0 =>
        /\ sim.pc \in {"post", "exit"}
        /\ sim.stop = "halt"
        /\ sim.main_time = hist.sentinel_step

C2_Witness ==
    /\ hist.sentinel_step = 2
    /\ sim.pc = "exit"
    /\ sim.main_time = 2
    /\ sim.max_sim_time > 2

\* C3: with halt address 0 and a core that never signals finish, the loop
\* is left with simulated time equal to the configured maximum, and the
\* process terminates.
C3_TimeBudget ==
    /\ [](LoopLeft /\ sim.halt_address = 0 /\ ~sim.gotFinish
            => sim.main_time = sim.max_sim_time)
    /\ (sim.pc = "loop") ~> LoopLeft

C3_Witness ==
    /\ sim.pc = "exit"
    /\ sim.halt_address = 0
    /\ ~sim.gotFinish
    /\ sim.exit_code = 0
    /\ sim.max_sim_time = MaxTime
    /\ sim.main_time = MaxTime

\* C6: bus traffic never aborts a run: the loop is left only on the halt
\* sentinel, the time budget or the core's finish; an out-of-range write is
\* logged, the loop goes on after it unless one of these holds, and the
\* process result is success.
C6_BusNeverFatal ==
    /\ sim.stop = "halt" => HaltConditionMet(sim)
    /\ sim.stop = "budget" => sim.main_time >= sim.max_sim_time
    /\ sim.stop = "finish" => sim.gotFinish
    /\ Stepped /\ sim.pc # "loop" => LoopLeft
    /\ hist.invalid_write_step > 0 => "invalid_write" \in sim.cerr
    /\ LoopLeft /\ sim.pc = "exit" => sim.exit_code = 0
    /\ hist.invalid_write_step > 0 /\ sim.pc = "loop" /\ LoopCondition(sim)
          => ENABLED Step

C6_Witness ==
    /\ hist.invalid_write_step = 1
    /\ sim.pc = "exit"
    /\ sim.main_time = MaxTime
    /\ sim.stop = "budget"
    /\ sim.exit_code = 0

\* C7: two runs that differ only in whether the waveform recorder was
\* enabled agree on memory, simulated time, stop reason and everything else
\* but the recorder; dump changes nothing but the recorder.
Observable(s) == [s EXCEPT !.vcd_tracer = NewVCDTracer]

C7_RecorderIndependent ==
    /\ sim.threw # "vcd_open" => Observable(sim) = Observable(twin)
    /\ sim.pc \in {"loop", "post"} =>
          /\ Observable(dump(sim, sim.main_time)) = Observable(sim)
          /\ Observable(dump(twin, twin.main_time)) = Observable(twin)

C7_Witness ==
    /\ sim.pc = "exit"
    /\ sim.vcd_tracer.tfp
    /\ ~twin.vcd_tracer.tfp
    /\ Len(sim.vcd_tracer.dumps) = MaxTime + 1
    /\ sim.memory # NewMemory(sim.memory_words)
    /\ sim.memory = twin.memory

(***************************************************************************)
(* The process result.                                                     *)
(***************************************************************************)
VcdOpenFailed ==
    \E i \in 1..(Len(args) - 1) : args[i] = Tok_vcd /\ ~OpenForWrite(args[i + 1])

ImageLoadFailed ==
    /\ sim.memory # <<>>
    /\ sim.instruction_filename # <<>>
    /\ LET file == OpenForRead(sim.instruction_filename) IN
       \/ file = NoFile
       \/ DefaultLoadAddress + Len(file) > 4 * sim.memory_words

SignatureOpenFailed ==
    sim.dump_signature /\ LoopLeft /\ sim.pc = "exit"
        /\ ~OpenForWrite(sim.signature_filename)

NormalCompletion == LoopLeft /\ sim.stop \in {"halt", "budget", "finish"}

\* C10 as stated: every file-level failure, the signature sink included,
\* makes the process result 1.
C10_AllFileFailuresFatal ==
    sim.pc = "exit" =>
        /\ VcdOpenFailed \/ ImageLoadFailed \/ SignatureOpenFailed
              => sim.exit_code = 1 /\ sim.cerr # {}
        /\ sim.exit_code = 0 =>
              /\ NormalCompletion
              /\ ~(VcdOpenFailed \/ ImageLoadFailed \/ SignatureOpenFailed)

\* C10, amended: a failure to open or fit the instruction image or to open
\* the waveform sink makes the result 1 with a diagnostic; a failure to open
\* the signature sink gives a diagnostic and leaves the result 0; the result
\* is 0 only on normal completion without image or waveform failure.
C10_SetupFailuresFatal ==
    sim.pc = "exit" =>
        /\ VcdOpenFailed => sim.exit_code = 1 /\ "vcd_open" \in sim.cerr
        /\ ImageLoadFailed =>
              /\ sim.exit_code = 1
              /\ sim.cerr \cap {"load_open", "load_too_large"} # {}
        /\ SignatureOpenFailed =>
              sim.exit_code = 0 /\ "signature_open" \in sim.cerr
        /\ sim.exit_code = 0 =>
              NormalCompletion /\ ~VcdOpenFailed /\ ~ImageLoadFailed

\* a halted run whose signature sink cannot be opened
C10_Witness ==
    /\ sim.pc = "exit"
    /\ sim.stop = "halt"
    /\ SignatureOpenFailed
    /\ ~VcdOpenFailed
    /\ sim.exit_code = 0
    /\ sim.cerr = {"signature_open"}

\* C11: a signature sink that cannot be opened is reported and nothing more:
\* the diagnostic appears only once the loop has been left, no line is
\* written, the step that extracts the signature changes neither memory nor
\* simulated time nor the stop reason, and the process result is success.
C11_SignatureFailureNonFatal ==
    /\ []("signature_open" \in sim.cerr =>
            /\ LoopLeft
            /\ sim.pc = "exit"
            /\ sim.signature_calls = 1
            /\ ~sim.signature_file.is_open
            /\ sim.signature_file.lines = <<>>
            /\ sim.threw = "none"
            /\ sim.exit_code = 0)
    /\ [](SignatureOpenFailed => "signature_open" \in sim.cerr)
    /\ [][sim.pc = "post" =>
            /\ sim'.memory = sim.memory
            /\ sim'.main_time = sim.main_time
            /\ sim'.stop = sim.stop]_vars

\* a run that wrote to memory, reached its time budget and then failed to
\* open the signature sink
C11_Witness ==
    /\ sim.pc = "exit"
    /\ sim.stop = "budget"
    /\ sim.main_time = MaxTime
    /\ sim.memory # NewMemory(sim.memory_words)
    /\ SignatureOpenFailed
    /\ "signature_open" \in sim.cerr
    /\ sim.exit_code = 0

\* C12: VTop::final has run exactly once when the process has exited, on
\* every exit path (time budget, halt, failure inside the constructor), and
\* never before.
C12_FinalOnEveryExit ==
    /\ sim.pc = "exit" => sim.top.final_calls = 1
    /\ sim.pc # "exit" => sim.top.final_calls = 0

DataBusOps == SelectSeq(sim.bus_ops, LAMBDA op : op \in {"data_read", "data_write"})

\* C13 as stated: each step services the data bus with exactly one Memory
\* call, a write when write-enable is asserted and a read otherwise.
C13_OneDataOperation ==
    Stepped =>
        DataBusOps = IF sim.top.io_memory_bundle_write_enable
                     THEN <<"data_write">> ELSE <<"data_read">>

\* C13, amended: each step reads the word at the asserted data address for
\* the next step's response, whether or not write-enable is asserted; when it
\* is asserted the step then issues one write with the core's strobes, and
\* otherwise none.
C13_ReadThenWriteWhenEnabled ==
    Stepped =>
        /\ DataBusOps = IF sim.top.io_memory_bundle_write_enable
                        THEN <<"data_read", "data_write">> ELSE <<"data_read">>
        /\ sim.data_memory_read_word = hist.last.data
        /\ sim.top.io_memory_bundle_write_enable =>
              sim.memory_write_strobe = sim.top.io_memory_bundle_write_strobe

\* a write step whose pending data response is the word the write replaced
C13_Witness ==
    /\ Stepped
    /\ sim.pc = "loop"
    /\ sim.top.io_memory_bundle_write_enable
    /\ sim.top.io_memory_bundle_address = InRangeAddress
    /\ sim.data_memory_read_word = OtherWord
    /\ read(sim.memory, InRangeAddress) # OtherWord
    /\ sim.bus_ops = <<"data_read", "inst_read", "data_write">>

InRun == sim.pc \in {"loop", "post"} \/ (sim.pc = "exit" /\ LoopLeft)

C15_ProgressNotices ==
    InRun =>
        /\ sim.max_sim_time <= 10 => sim.notices = <<>>
        /\ sim.max_sim_time > 10 =>
              /\ Len(sim.notices) <= 10
              /\ Len(sim.notices) = (sim.main_time * 10) \div sim.max_sim_time
              /\ \A k \in 1..Len(sim.notices) : sim.notices[k] = 10 * k
        /\ [ProgressNotice(sim) EXCEPT !.notices = sim.notices] = sim

\* C16: whichever of the three conditions ends the loop, the same post-run
\* step follows: the signature is extracted exactly once if a range was
\* configured and never otherwise, from the memory the last step left, and
\* neither memory nor simulated time changes afterwards; a step in which the
\* core signals finish is serviced in full, and the loop is left at the head
\* of the next iteration.
C16_SamePostRunStep ==
    /\ [](LoopLeft => sim.stop \in {"halt", "budget", "finish"})
    /\ [](sim.pc # "exit" => sim.signature_calls = 0)
    /\ [](LoopLeft /\ sim.pc = "exit" =>
            /\ sim.signature_calls = IF sim.dump_signature THEN 1 ELSE 0
            /\ sim.dump_signature /\ OpenForWrite(sim.signature_filename) =>
                  sim.signature_file.lines =
                     SignatureLines(sim.memory, sim.signature_begin, sim.signature_end))
    /\ [][sim.pc = "post" => sim'.pc = "exit"]_vars
    /\ [][sim.pc \in {"post", "exit"} =>
            sim'.memory = sim.memory /\ sim'.main_time = sim.main_time]_vars
    /\ [][sim.pc = "loop" /\ LoopCondition(sim) /\ sim'.gotFinish
              /\ ~HaltConditionMet(sim') =>
            /\ sim'.pc = "loop"
            /\ sim'.main_time = sim.main_time + 1
            /\ sim'.data_memory_read_word =
                  read(sim.memory, sim'.top.io_memory_bundle_address)
            /\ sim'.memory =
                  IF sim'.top.io_memory_bundle_write_enable
                  THEN write(sim.memory, sim'.top.io_memory_bundle_address,
                             sim'.top.io_memory_bundle_write_data,
                             sim'.top.io_memory_bundle_write_strobe)
                  ELSE sim.memory]_vars
    /\ [][sim.pc = "loop" /\ sim.gotFinish =>
            sim'.pc = "post" /\ sim'.main_time = sim.main_time]_vars

\* the core wrote a word and signalled finish in the same step, before the
\* time budget: the signature holds the written word
C16_Witness ==
    /\ sim.pc = "exit"
    /\ sim.stop = "finish"
    /\ sim.main_time >= 1
    /\ sim.main_time < sim.max_sim_time
    /\ sim.top.io_memory_bundle_write_enable
    /\ sim.signature_calls = 1
    /\ Len(sim.signature_file.lines) = MemWords + 1
    /\ sim.signature_file.lines[2] = Hex8(OtherWord)

\* The command lines of the model put a flag only where parse_args looks for
\* one, so a flag is missing a value exactly when too few tokens follow it.
OneValueFlags == {Tok_halt, Tok_memory, Tok_time, Tok_vcd, Tok_instruction}
MissingValue(a) ==
    \/ a[Len(a)] \in OneValueFlags
    \/ \E i \in 1..Len(a) : a[i] = Tok_signature /\ Len(a) - i < 3

AllDigits(str, base) ==
    Len(str) >= 1 /\ \A i \in 1..Len(str) : DigitValue(str[i]) < base
WellFormedNumber(str) ==
    \/ AllDigits(str, 10)
    \/ /\ Len(str) > 2
       /\ SubSeq(str, 1, 2) \in {<<"0", "x">>, <<"0", "X">>}
       /\ AllDigits(SubSeq(str, 3, Len(str)), 16)
MalformedNumber(a) ==
    \E i \in 1..(Len(a) - 1) :
        \/ a[i] \in {Tok_halt, Tok_memory, Tok_time} /\ ~WellFormedNumber(a[i + 1])
        \/ /\ a[i] = Tok_signature
           /\ Len(a) - i >= 3
           /\ ~WellFormedNumber(a[i + 1]) \/ ~WellFormedNumber(a[i + 2])

\* C17: a command line with a flag that lacks its value(s) or with a
\* malformed number ends the process with result 1 and a diagnostic, before
\* the first step.
C17_ConfigErrorsSurfaced ==
    (MissingValue(args) \/ MalformedNumber(args)) /\ sim.pc # "main" =>
        /\ sim.pc = "exit"
        /\ sim.exit_code = 1
        /\ sim.cerr # {}
        /\ sim.main_time = 0
        /\ sim.bus_ops = <<>>

\* C18: in a step both reads are taken from the memory as it was before the
\* step's write, the halt check sees the memory the write leaves, and the
\* next step presents the words so read.
C18_ReadBeforeWrite ==
    /\ [][sim.pc = "loop" /\ LoopCondition(sim) =>
            /\ sim'.data_memory_read_word =
                  read(sim.memory, sim'.top.io_memory_bundle_address)
            /\ sim'.inst_memory_read_word =
                  read(sim.memory, sim'.top.io_instruction_address)
            /\ sim'.memory =
                  IF sim'.top.io_memory_bundle_write_enable
                  THEN write(sim.memory, sim'.top.io_memory_bundle_address,
                             sim'.top.io_memory_bundle_write_data,
                             sim'.top.io_memory_bundle_write_strobe)
                  ELSE sim.memory
            /\ sim'.stop = "halt" <=>
                  /\ sim.halt_address # 0
                  /\ read(sim'.memory, sim.halt_address) = HaltSentinel
            /\ sim'.top.io_memory_bundle_read_data = sim.data_memory_read_word
            /\ sim'.top.io_instruction = sim.inst_memory_read_word]_vars

\* the step that overwrites a word with the halt sentinel while fetching and
\* reading that word: both pending words are the old content, the run halts
C18_Witness ==
    /\ sim.pc = "post"
    /\ sim.stop = "halt"
    /\ sim.top.io_memory_bundle_write_enable
    /\ sim.top.io_memory_bundle_address = InRangeAddress
    /\ sim.top.io_instruction_address = InRangeAddress
    /\ read(sim.memory, InRangeAddress) = HaltSentinel
    /\ sim.data_memory_read_word = OtherWord
    /\ sim.inst_memory_read_word = OtherWord

HaltWatchOff == sim.halt_address = 0 \/ sim.halt_address \div 4 >= sim.memory_words

\* C19: with halt address 0, or one whose word lies beyond the capacity, the
\* loop is never left through the halt check, whatever memory holds, and
\* ends on the time budget or on finish; any other halt address, aligned or
\* not, watches the word that contains it.
C19_HaltWatch ==
    /\ HaltWatchOff => sim.stop # "halt"
    /\ HaltWatchOff /\ LoopLeft => sim.stop \in {"budget", "finish"}
    /\ ~HaltWatchOff /\ Stepped =>
          (sim.stop = "halt") = (sim.memory[sim.halt_address \div 4 + 1] = HaltSentinel)

\* a run to the time budget with the halt watch at 0 and the sentinel in
\* word 0
C19_Witness ==
    /\ sim.pc = "exit"
    /\ sim.halt_address = 0
    /\ sim.stop = "budget"
    /\ sim.main_time = MaxTime
    /\ read(sim.memory, 0) = HaltSentinel

\* C20: simulated time rises by exactly 1 per iteration and by nothing
\* else, never exceeds the maximum, the clock equals time mod 2,
\* instruction_valid stays asserted, and the recorder has been given each
\* time 0, 1, ..., main_time once, in this order.
C20_ClockAndTime ==
    /\ [](InRun =>
            /\ sim.main_time <= sim.max_sim_time
            /\ sim.top.clock = sim.main_time % 2
            /\ sim.top.io_instruction_valid = 1
            /\ sim.vcd_tracer.tfp =>
                  sim.vcd_tracer.dumps = [i \in 1..(sim.main_time + 1) |-> i - 1])
    /\ [][sim.pc = "loop" /\ LoopCondition(sim) =>
            sim'.main_time = sim.main_time + 1]_vars
    /\ [][sim.pc # "loop" \/ ~LoopCondition(sim) =>
            sim'.main_time = sim.main_time]_vars

C20_Witness ==
    /\ sim.pc = "post"
    /\ sim.stop = "budget"
    /\ sim.main_time = MaxTime
    /\ sim.top.clock = MaxTime % 2
    /\ sim.vcd_tracer.tfp
    /\ Len(sim.vcd_tracer.dumps) = MaxTime + 1
    /\ sim.vcd_tracer.dumps[MaxTime + 1] = MaxTime

(***************************************************************************)
(* Memory and the signature extractor on their own: one operation applied  *)
(* to a memory, with its arguments drawn from bounded sets.                *)
(***************************************************************************)
UnitWords == {ZeroWord, HaltSentinel, OtherWord}
UnitMemories == [1..MemWords -> UnitWords]
UnitAddresses == 0..(4 * MemWords + 7)
UnitValues == {HaltSentinel, <<1, 2, 3, 4>>}
UnitStrobes == [1..4 -> BOOLEAN]
TestImage(n) == [k \in 1..n |-> (17 * k) % 256]
UnitImages == {TestImage(n) : n \in 0..MaxImageBytes} \cup {NoFile}
UnitRangeEnds == 0..(4 * MemWords + 8)

UnitInit ==
    /\ args = <<>>
    /\ sim = NewSimulator
    /\ twin = NewSimulator
    /\ hist = NoHist
    /\ \E m \in UnitMemories : unit = [op |-> "init", memory |-> m]

UnitRead ==
    /\ unit.op = "init"
    /\ \E a \in UnitAddresses :
          unit' = [op |-> "read", before |-> unit.memory, memory |-> unit.memory,
                   address |-> a, result |-> read(unit.memory, a)]
    /\ UNCHANGED <<args, sim, twin, hist>>

UnitWrite ==
    /\ unit.op = "init"
    /\ \E a \in UnitAddresses, v \in UnitValues, st \in UnitStrobes :
          LET after == write(unit.memory, a, v, st) IN
          unit' = [op |-> "write", before |-> unit.memory, memory |-> after,
                   address |-> a, value |-> v, strobe |-> st,
                   result |-> read(after, a)]
    /\ UNCHANGED <<args, sim, twin, hist>>

UnitLoad ==
    /\ unit.op = "init"
    /\ \E file \in UnitImages, o \in UnitAddresses :
          LET l == load_binary(unit.memory, file, o) IN
          unit' = [op |-> "load", before |-> unit.memory, memory |-> l.memory,
                   file |-> file, load_address |-> o, threw |-> l.threw]
    /\ UNCHANGED <<args, sim, twin, hist>>

UnitSignature ==
    /\ unit.op = "init"
    /\ \E b \in UnitRangeEnds, e \in UnitRangeEnds, f \in {F_sig, F_locked} :
          LET s == generate_signature(
                      [NewSimulator EXCEPT !.memory = unit.memory,
                                           !.dump_signature = TRUE,
                                           !.signature_begin = b,
                                           !.signature_end = e,
                                           !.signature_filename = f])
          IN unit' = [op |-> "signature", before |-> unit.memory, memory |-> s.memory,
                      begin |-> b, end |-> e, filename |-> f,
                      file |-> s.signature_file, cerr |-> s.cerr]
    /\ UNCHANGED <<args, sim, twin, hist>>

UnitNext == UnitRead \/ UnitWrite \/ UnitLoad \/ UnitSignature

UnitSpec == UnitInit /\ [][UnitNext]_vars

InCapacity(mem, address) == address \div 4 < Len(mem)

\* C4: a write followed by a read of the same in-capacity address returns,
\* lane by lane, the written byte where the strobe is set and the byte
\* stored before the write elsewhere; with all four strobes, the written
\* value.
C4_WriteThenRead ==
    unit.op = "write" /\ InCapacity(unit.before, unit.address) =>
        /\ \A i \in 1..4 :
              unit.result[i] =
                 IF unit.strobe[i] THEN unit.value[i]
                 ELSE unit.before[unit.address \div 4 + 1][i]
        /\ (\A i \in 1..4 : unit.strobe[i]) => unit.result = unit.value

\* only lane 3 is written, into a word whose four lanes all differ from the
\* written value
C4_Witness ==
    /\ unit.op = "write"
    /\ InCapacity(unit.before, unit.address)
    /\ unit.strobe = <<FALSE, FALSE, FALSE, TRUE>>
    /\ unit.value = HaltSentinel
    /\ unit.result = <<68, 51, 34, 186>>

\* C5: beyond the capacity a read returns 0 and a write changes neither a
\* stored word nor the size of the memory.
C5_OutOfRange ==
    /\ unit.op = "read" /\ ~InCapacity(unit.before, unit.address)
          => unit.result = ZeroWord
    /\ unit.op = "write" /\ ~InCapacity(unit.before, unit.address)
          => unit.memory = unit.before /\ Len(unit.memory) = Len(unit.before)

C5_Witness ==
    /\ unit.op = "write"
    /\ unit.address = 4 * MemWords
    /\ unit.strobe = AllStrobes
    /\ unit.before[1] = OtherWord
    /\ unit.memory = unit.before
    /\ unit.result = ZeroWord

FileWord(file, k) ==
    <<file[4 * k + 1], file[4 * k + 2], file[4 * k + 3], file[4 * k + 4]>>

\* C8: loading an image of S bytes at byte offset O into a zeroed memory
\* fails and changes nothing when O + S exceeds the byte capacity;
\* otherwise the words O/4 .. O/4 + S/4 - 1 hold the image's whole words in
\* order and every other word is 0.
C8_LoadBinary ==
    /\ unit.op = "load"
    /\ unit.before = NewMemory(Len(unit.before))
    /\ unit.file # NoFile
    => LET S == Len(unit.file)
           O == unit.load_address
           N == Len(unit.before)
       IN  IF O + S > 4 * N
           THEN unit.threw = "load_too_large" /\ unit.memory = unit.before
           ELSE /\ unit.threw = "none"
                /\ Len(unit.memory) = N
                /\ \A idx \in 0..(N - 1) :
                      unit.memory[idx + 1] =
                         IF idx >= O \div 4 /\ idx < O \div 4 + S \div 4
                         THEN FileWord(unit.file, idx - O \div 4)
                         ELSE ZeroWord

\* five bytes loaded at offset 3: one word written, one byte dropped
C8_Witness ==
    /\ unit.op = "load"
    /\ unit.before = NewMemory(Len(unit.before))
    /\ unit.file = TestImage(5)
    /\ unit.load_address = 3
    /\ unit.threw = "none"
    /\ unit.memory[1] = <<17, 34, 51, 68>>
    /\ unit.memory[2] = ZeroWord

LowerHex == {"0", "1", "2", "3", "4", "5", "6", "7", "8", "9",
             "a", "b", "c", "d", "e", "f"}

\* C9: over a word-aligned range [B, E), E >= B, the signature holds
\* (E - B) / 4 lines; line k is eight lowercase hexadecimal digits whose
\* value is the word read at B + 4k; memory is not modified.
C9_Signature ==
    /\ unit.op = "signature"
    /\ OpenForWrite(unit.filename)
    /\ unit.begin % 4 = 0
    /\ unit.end % 4 = 0
    /\ unit.end >= unit.begin
    => /\ unit.file.is_open
       /\ Len(unit.file.lines) = (unit.end - unit.begin) \div 4
       /\ \A k \in 1..Len(unit.file.lines) :
             LET line == unit.file.lines[k]
                 w == read(unit.before, unit.begin + 4 * (k - 1))
             IN  /\ Len(line) = 8
                 /\ \A j \in 1..8 : line[j] \in LowerHex
                 /\ \A i \in 0..3 :
                       16 * DigitValue(line[7 - 2 * i]) + DigitValue(line[8 - 2 * i])
                          = w[i + 1]
       /\ unit.memory = unit.before

C9_Witness ==
    /\ unit.op = "signature"
    /\ unit.begin = 4
    /\ unit.end = 4 * MemWords + 4
    /\ unit.before[2] = HaltSentinel
    /\ unit.before[MemWords] # ZeroWord
    /\ Len(unit.file.lines) = MemWords
    /\ unit.file.lines[1] = <<"b", "a", "b", "e", "c", "a", "f", "e">>
    /\ unit.file.lines[MemWords] = <<"0", "0", "0", "0", "0", "0", "0", "0">>

====
